---- MODULE Spec2Model ----
(***************************************************************************)
(* The puzzle generators of the kidschurch pamphlet builder:               *)
(*   generateMaze        (Maze component, ColoringActivity.jsx 58-127)     *)
(*   generateWordSearch  (WordSearch.jsx 12-99)                            *)
(*   generateCrossword   (Crossword.jsx 61-205)                            *)
(* and the PDF export of the pamphlet preview:                             *)
(*   handleGenerate      (PamphletGenerator.jsx 26-65)                     *)
(*   PamphletPreview     (exportToPDF, the auto-export effect, the         *)
(*                        Download button)                                 *)
(* Each of them is a state machine of its own (SpecMaze, SpecWS, SpecCW,   *)
(* SpecPDF); the variables of the machines that are not running keep       *)
(* their idle value.                                                       *)
(***************************************************************************)
EXTENDS Integers, Sequences, FiniteSets, TLC

VARIABLES
  \* generateMaze
  cols, rows,      \* the arguments
  grid,            \* grid[<<x, y>>]: the cell record of grid[y][x]
  stack,           \* sequence of <<x, y>>
  current,         \* <<x, y>>
  mazePc,          \* "idle" | "start" | "loop" | "done" | "threw"
  mazeError,       \* the error generateMaze threw, "none" when it did not
  \* generateWordSearch
  words,           \* the words prop: a sequence of words, a word a sequence of characters
  gridSize,        \* the gridSize state of the component
  wsGrid,          \* wsGrid[<<x, y>>]: the letter grid[y][x]
  placedWords,     \* sequence of [word, path]
  wordIdx,         \* position of the for loop in words
  attempts,        \* attempts made for the current word
  wsPc,            \* "idle" | "for" | "done"
  \* generateCrossword
  cwWords,         \* the words argument: a sequence of words
  cwGrid,          \* cwGrid[<<row, col>>]: the letter grid[row][col], "_" when free
  cwPlaced,        \* placedWords: sequence of [text, row, col, vertical]
  cwWordIdx,       \* wordIdx, counted from 1
  result,          \* what generateCrossword returned
  cwPc,            \* "idle" | "start" | "place" | "done" | "threw"
  \* PamphletGenerator and PamphletPreview
  pamphletContent, \* the pamphletContent state: 0 for null, else the number
                   \* of the generation that delivered it
  pvState,         \* [pdfGenerated, isExporting]: the state of the preview
  pvRendered,      \* [content, pdfGenerated, isExporting]: the values of the
                   \* committed render (closures, button, effect deps)
  timer,           \* 0, or the content of the render whose effect set the
                   \* 500 ms timer
  runs,            \* the exportToPDF executions past the guard:
                   \* sequence of [content, pc, outcome]
  saved,           \* the contents of the pdf.save calls, in order
  pdfPc            \* "idle" | "run"

mazeVars == <<cols, rows, grid, stack, current, mazePc, mazeError>>
wsVars == <<words, gridSize, wsGrid, placedWords, wordIdx, attempts, wsPc>>
cwVars == <<cwWords, cwGrid, cwPlaced, cwWordIdx, result, cwPc>>
pdfVars == <<pamphletContent, pvState, pvRendered, timer, runs, saved, pdfPc>>
vars == <<mazeVars, wsVars, cwVars, pdfVars>>

(***************************************************************************)
(* Bounds of the model.                                                    *)
(***************************************************************************)
MaxCols == 4
MaxRows == 3
\* gridSize is state of the WordSearch component (useState(20), line 6); the
\* generator is run for every grid size from 1 to MaxGridSize
MaxGridSize == 3

(***************************************************************************)
(* The generators at rest.                                                 *)
(***************************************************************************)
MazeIdle ==
  /\ cols = 0 /\ rows = 0 /\ grid = <<>> /\ stack = <<>>
  /\ current = <<0, 0>> /\ mazePc = "idle" /\ mazeError = "none"

WSIdle ==
  /\ words = <<>> /\ gridSize = 0 /\ wsGrid = <<>> /\ placedWords = <<>>
  /\ wordIdx = 0 /\ attempts = 0 /\ wsPc = "idle"

NoResult == [returned |-> FALSE, grid |-> <<>>, across |-> <<>>, down |-> <<>>]

CWIdle ==
  /\ cwWords = <<>> /\ cwGrid = <<>> /\ cwPlaced = <<>> /\ cwWordIdx = 0
  /\ result = NoResult /\ cwPc = "idle"

PDFIdle ==
  /\ pamphletContent = 0
  /\ pvState = [pdfGenerated |-> FALSE, isExporting |-> FALSE]
  /\ pvRendered = [content |-> 0, pdfGenerated |-> FALSE, isExporting |-> FALSE]
  /\ timer = 0 /\ runs = <<>> /\ saved = <<>> /\ pdfPc = "idle"

(***************************************************************************)
(* generateMaze                                                            *)
(***************************************************************************)
Cells(c, r) == (0 .. c - 1) \X (0 .. r - 1)

\* lines 60-66: every cell starts with its four walls and unvisited
AllWalls == [top |-> TRUE, right |-> TRUE, bottom |-> TRUE, left |-> TRUE,
             visited |-> FALSE]

InitialGrid(c, r) == [p \in Cells(c, r) |-> AllWalls]

\* lines 75-89: the unvisited in-bounds neighbours of cur, each with the
\* wall of cur that faces it
NeighborsNoBottom(g, cur, c, r) ==
     (IF cur[2] > 0 /\ ~g[<<cur[1], cur[2] - 1>>].visited
        THEN {[x |-> cur[1], y |-> cur[2] - 1, wall |-> "top"]} ELSE {})
  \cup (IF cur[1] < c - 1 /\ ~g[<<cur[1] + 1, cur[2]>>].visited
        THEN {[x |-> cur[1] + 1, y |-> cur[2], wall |-> "right"]} ELSE {})
  \cup (IF cur[1] > 0 /\ ~g[<<cur[1] - 1, cur[2]>>].visited
        THEN {[x |-> cur[1] - 1, y |-> cur[2], wall |-> "left"]} ELSE {})

NeighborsNoRight(g, cur, c, r) ==
     (IF cur[2] > 0 /\ ~g[<<cur[1], cur[2] - 1>>].visited
        THEN {[x |-> cur[1], y |-> cur[2] - 1, wall |-> "top"]} ELSE {})
  \cup (IF cur[2] < r - 1 /\ ~g[<<cur[1], cur[2] + 1>>].visited
        THEN {[x |-> cur[1], y |-> cur[2] + 1, wall |-> "bottom"]} ELSE {})
  \cup (IF cur[1] > 0 /\ ~g[<<cur[1] - 1, cur[2]>>].visited
        THEN {[x |-> cur[1] - 1, y |-> cur[2], wall |-> "left"]} ELSE {})

NeighborsRightUnchecked(g, cur, c, r) ==
     (IF cur[2] > 0 /\ ~g[<<cur[1], cur[2] - 1>>].visited
        THEN {[x |-> cur[1], y |-> cur[2] - 1, wall |-> "top"]} ELSE {})
  \cup (IF cur[1] < c - 1
        THEN {[x |-> cur[1] + 1, y |-> cur[2], wall |-> "right"]} ELSE {})
  \cup (IF cur[2] < r - 1 /\ ~g[<<cur[1], cur[2] + 1>>].visited
        THEN {[x |-> cur[1], y |-> cur[2] + 1, wall |-> "bottom"]} ELSE {})
  \cup (IF cur[1] > 0 /\ ~g[<<cur[1] - 1, cur[2]>>].visited
        THEN {[x |-> cur[1] - 1, y |-> cur[2], wall |-> "left"]} ELSE {})

Neighbors(g, cur, c, r) ==
     (IF cur[2] > 0 /\ ~g[<<cur[1], cur[2] - 1>>].visited
        THEN {[x |-> cur[1], y |-> cur[2] - 1, wall |-> "top"]} ELSE {})
  \cup (IF cur[1] < c - 1 /\ ~g[<<cur[1] + 1, cur[2]>>].visited
        THEN {[x |-> cur[1] + 1, y |-> cur[2], wall |-> "right"]} ELSE {})
  \cup (IF cur[2] < r - 1 /\ ~g[<<cur[1], cur[2] + 1>>].visited
        THEN {[x |-> cur[1], y |-> cur[2] + 1, wall |-> "bottom"]} ELSE {})
  \cup (IF cur[1] > 0 /\ ~g[<<cur[1] - 1, cur[2]>>].visited
        THEN {[x |-> cur[1] - 1, y |-> cur[2], wall |-> "left"]} ELSE {})

Opposite(w) ==
  CASE w = "top" -> "bottom"
    [] w = "right" -> "left"
    [] w = "bottom" -> "top"
    [] w = "left" -> "right"

\* lines 94-107: clear the wall of cur that faces next and the opposite
\* wall of next
RemoveWallOneSided(g, cur, next) == [g EXCEPT ![cur][next.wall] = FALSE]

RemoveWall(g, cur, next) ==
  [g EXCEPT ![cur][next.wall] = FALSE,
            ![<<next.x, next.y>>][Opposite(next.wall)] = FALSE]

\* line 109
MarkVisited(g, p) == [g EXCEPT ![p].visited = TRUE]

\* line 121
OpenEntrance(g) == [g EXCEPT ![<<0, 0>>].top = FALSE]

\* line 124: grid[rows - 1][cols - 1].bottom = false
OpenExitTransposed(g, c, r) == [g EXCEPT ![<<r - 1, c - 1>>].bottom = FALSE]

OpenExit(g, c, r) == [g EXCEPT ![<<c - 1, r - 1>>].bottom = FALSE]

\* generateMaze(cols, rows) is called and has built the grid: lines 58-70.
\* The function tests none of its arguments, so the calls with a dimension
\* of 0 or less are calls the program accepts
MazeInit ==
  /\ cols \in -1 .. MaxCols
  /\ rows \in -1 .. MaxRows
  /\ grid = InitialGrid(cols, rows)
  /\ current = <<0, 0>>
  /\ stack = <<>>
  /\ mazePc = "start"
  /\ mazeError = "none"
  /\ WSIdle /\ CWIdle /\ PDFIdle

\* lines 71-72 when grid[0][0] is a cell
MazeStart ==
  /\ mazePc = "start"
  /\ current \in DOMAIN grid
  /\ grid' = MarkVisited(grid, current)
  /\ stack' = Append(stack, current)
  /\ mazePc' = "loop"
  /\ UNCHANGED <<cols, rows, current, mazeError, wsVars, cwVars, pdfVars>>

\* line 71 when there is no grid[0][0]: with rows <= 0 grid[0] is undefined
\* and reading its property 0 throws a TypeError; with cols <= 0 grid[0] is
\* [] and setting visited on undefined throws a TypeError
MazeThrow ==
  /\ mazePc = "start"
  /\ current \notin DOMAIN grid
  /\ mazePc' = "threw"
  /\ mazeError' = "TypeError"
  /\ UNCHANGED <<cols, rows, grid, stack, current, wsVars, cwVars, pdfVars>>

\* one iteration of the loop with neighbors.length > 0: lines 91-112
MazeCarvePushesNext ==
  /\ mazePc = "loop"
  /\ Len(stack) > 0
  /\ \E next \in Neighbors(grid, current, cols, rows) :
       /\ grid' = MarkVisited(RemoveWall(grid, current, next), <<next.x, next.y>>)
       /\ stack' = Append(stack, <<next.x, next.y>>)
       /\ current' = <<next.x, next.y>>
  /\ UNCHANGED <<cols, rows, mazePc, mazeError, wsVars, cwVars, pdfVars>>

MazeCarve ==
  /\ mazePc = "loop"
  /\ Len(stack) > 0
  /\ \E next \in Neighbors(grid, current, cols, rows) :
       /\ grid' = MarkVisited(RemoveWall(grid, current, next), <<next.x, next.y>>)
       /\ stack' = Append(stack, current)
       /\ current' = <<next.x, next.y>>
  /\ UNCHANGED <<cols, rows, mazePc, mazeError, wsVars, cwVars, pdfVars>>

\* one iteration of the loop with no neighbour: lines 113-117
MazeBacktrackKeepsCurrent ==
  /\ mazePc = "loop"
  /\ Len(stack) > 0
  /\ Neighbors(grid, current, cols, rows) = {}
  /\ stack' = SubSeq(stack, 1, Len(stack) - 1)
  /\ UNCHANGED <<cols, rows, grid, current, mazePc, mazeError, wsVars, cwVars, pdfVars>>

MazeBacktrack ==
  /\ mazePc = "loop"
  /\ Len(stack) > 0
  /\ Neighbors(grid, current, cols, rows) = {}
  /\ current' = stack[Len(stack)]
  /\ stack' = SubSeq(stack, 1, Len(stack) - 1)
  /\ UNCHANGED <<cols, rows, grid, mazePc, mazeError, wsVars, cwVars, pdfVars>>

\* the loop has ended: lines 120-126
MazeFinish ==
  /\ mazePc = "loop"
  /\ Len(stack) = 0
  /\ grid' = OpenExit(OpenEntrance(grid), cols, rows)
  /\ mazePc' = "done"
  /\ UNCHANGED <<cols, rows, stack, current, mazeError, wsVars, cwVars, pdfVars>>

MazeNext == MazeStart \/ MazeThrow \/ MazeCarve \/ MazeBacktrack \/ MazeFinish

SpecMaze == MazeInit /\ [][MazeNext]_vars

\* generateMaze is one synchronous call: once entered, its statements run
\* one after the other until it returns or throws
SpecMazeFair == SpecMaze /\ WF_vars(MazeNext)

(***************************************************************************)
(* Properties of generateMaze                                              *)
(***************************************************************************)
\* the wall between the grid-adjacent cells a and b is removed on both sides
Passage(g, a, b) ==
  \/ b = <<a[1] + 1, a[2]>> /\ ~g[a].right /\ ~g[b].left
  \/ b = <<a[1] - 1, a[2]>> /\ ~g[a].left /\ ~g[b].right
  \/ b = <<a[1], a[2] + 1>> /\ ~g[a].bottom /\ ~g[b].top
  \/ b = <<a[1], a[2] - 1>> /\ ~g[a].top /\ ~g[b].bottom

\* flood fill: the cells reachable from the cells of seen through passages
RECURSIVE Flood(_, _)
Flood(g, seen) ==
  LET more == {b \in DOMAIN g : \E a \in seen : Passage(g, a, b)}
  IN  IF more \subseteq seen THEN seen ELSE Flood(g, seen \cup more)

\* the interior walls with a cleared flag on either side: a wall is named by
\* the cell on its left (a "right" wall) or above it (a "bottom" wall)
InteriorWallsRemoved(g, c, r) ==
     {<<a, "right">> : a \in {p \in DOMAIN g :
          p[1] < c - 1 /\ (~g[p].right \/ ~g[<<p[1] + 1, p[2]>>].left)}}
  \cup {<<a, "bottom">> : a \in {p \in DOMAIN g :
          p[2] < r - 1 /\ (~g[p].bottom \/ ~g[<<p[1], p[2] + 1>>].top)}}

\* C1: in the maze that generateMaze returns, every one of the cols*rows
\* cells is reachable from cell (0,0) through removed walls.
MazeConnectivity ==
  mazePc = "done" => Flood(grid, {<<0, 0>>}) = Cells(cols, rows)

C1_Witness ==
  /\ mazePc = "done" /\ cols > 1 /\ rows > 1
  /\ Flood(grid, {<<0, 0>>}) = Cells(cols, rows)

\* C2: the number of interior walls that generateMaze removed is exactly
\* cols*rows - 1: together with connectivity the passages are a spanning
\* tree.  While the loop runs it is the number of visited cells minus one.
MazeAcyclicity ==
  /\ mazePc = "done" =>
       Cardinality(InteriorWallsRemoved(grid, cols, rows)) = cols * rows - 1
  /\ mazePc = "loop" =>
       Cardinality(InteriorWallsRemoved(grid, cols, rows))
         = Cardinality({p \in DOMAIN grid : grid[p].visited}) - 1

C2_Witness ==
  /\ mazePc = "done" /\ cols > 1 /\ rows > 1
  /\ Cardinality(InteriorWallsRemoved(grid, cols, rows)) = cols * rows - 1

\* C10: the returned maze has the top wall of cell (0,0) and the bottom wall
\* of cell (cols-1, rows-1) removed, the 1x1 maze included.
MazeEntranceExit ==
  mazePc = "done" =>
    /\ ~grid[<<0, 0>>].top
    /\ ~grid[<<cols - 1, rows - 1>>].bottom

C10_Witness ==
  /\ mazePc = "done" /\ cols # rows
  /\ ~grid[<<0, 0>>].top /\ ~grid[<<cols - 1, rows - 1>>].bottom

C10_WitnessSingleCell ==
  mazePc = "done" /\ cols = 1 /\ rows = 1 /\ ~grid[<<0, 0>>].top /\ ~grid[<<0, 0>>].bottom

\* C11: between loop iterations and in the returned maze, the wall flags on
\* the two sides of every pair of grid-adjacent cells are equal (right of
\* the left cell = left of the right cell, bottom of the upper cell = top of
\* the lower cell): a carve step clears both together.
MazeWallConsistency ==
  mazePc \in {"loop", "done"} =>
    \A a \in DOMAIN grid :
      /\ a[1] < cols - 1 => grid[a].right = grid[<<a[1] + 1, a[2]>>].left
      /\ a[2] < rows - 1 => grid[a].bottom = grid[<<a[1], a[2] + 1>>].top

C11_Witness ==
  /\ mazePc = "loop"
  /\ \E a \in DOMAIN grid :
       /\ a[1] < cols - 1 /\ ~grid[a].right /\ ~grid[<<a[1] + 1, a[2]>>].left
  /\ \E a \in DOMAIN grid :
       /\ a[2] < rows - 1 /\ ~grid[a].bottom /\ ~grid[<<a[1], a[2] + 1>>].top
  /\ \E a \in DOMAIN grid :
       /\ a[1] < cols - 1 /\ grid[a].right /\ grid[<<a[1] + 1, a[2]>>].left

\* C12: for cols >= 1 and rows >= 1 and every sequence of random choices
\* the loop of generateMaze ends and the function returns; when it has
\* returned the stack is empty and every cell is visited; a cell that is
\* visited is never unmarked, and a step marks at most one cell.
MazeTotal ==
  /\ [](mazePc = "done" =>
         /\ stack = <<>>
         /\ \A p \in Cells(cols, rows) : p \in DOMAIN grid /\ grid[p].visited)
  /\ [][ /\ \A p \in DOMAIN grid : grid[p].visited => grid'[p].visited
         /\ Cardinality({p \in DOMAIN grid :
                          ~grid[p].visited /\ grid'[p].visited}) <= 1 ]_vars
  /\ (cols >= 1 /\ rows >= 1) => <>(mazePc = "done")

C12_Witness ==
  /\ mazePc = "done" /\ cols > 1 /\ rows > 1 /\ stack = <<>>
  /\ \A p \in Cells(cols, rows) : grid[p].visited

\* C13: generateMaze called with cols <= 0 or rows <= 0 fails with an
\* InvalidArgument error and returns no maze.
MazeInvalidArgument ==
  (cols <= 0 \/ rows <= 0) /\ mazePc \in {"loop", "done", "threw"} =>
    mazePc = "threw" /\ mazeError = "InvalidArgument"

\* the four sides of a cell: the offset of the neighbour, the wall of the
\* cell on that side, the wall of the neighbour that faces it
Sides ==
  { [dx |-> 0, dy |-> -1, wall |-> "top", facing |-> "bottom"],
    [dx |-> 1, dy |-> 0, wall |-> "right", facing |-> "left"],
    [dx |-> 0, dy |-> 1, wall |-> "bottom", facing |-> "top"],
    [dx |-> -1, dy |-> 0, wall |-> "left", facing |-> "right"] }

UnvisitedSides(g, cur) ==
  {sd \in Sides :
     /\ <<cur[1] + sd.dx, cur[2] + sd.dy>> \in DOMAIN g
     /\ ~g[<<cur[1] + sd.dx, cur[2] + sd.dy>>].visited}

\* C24: an iteration of the loop either advances or backtracks.  An advance
\* takes an in-bounds, unvisited neighbour of the current cell, clears the
\* standing wall of the current cell on that side and the facing wall of the
\* neighbour, marks the neighbour visited, leaves every other flag of every
\* cell as it was, pushes the current coordinates and moves to the
\* neighbour.  A backtrack happens when there is no such neighbour: it pops
\* one coordinate into current and changes no flag.
MazeCarveStep ==
  [][ (mazePc = "loop" /\ mazePc' = "loop") =>
       \/ \E sd \in UnvisitedSides(grid, current) :
            LET nb == <<current[1] + sd.dx, current[2] + sd.dy>>
            IN  /\ grid[current][sd.wall] /\ grid[nb][sd.facing]
                /\ grid' = [grid EXCEPT ![current][sd.wall] = FALSE,
                                        ![nb][sd.facing] = FALSE,
                                        ![nb].visited = TRUE]
                /\ stack' = Append(stack, current)
                /\ current' = nb
       \/ /\ UnvisitedSides(grid, current) = {}
          /\ grid' = grid
          /\ Len(stack) > 0
          /\ current' = stack[Len(stack)]
          /\ stack' = SubSeq(stack, 1, Len(stack) - 1) ]_vars

\* the loop has advanced and backtracked and has cells left to carve
C24_Witness ==
  /\ mazePc = "loop" /\ cols > 1 /\ rows > 1
  /\ Cardinality({p \in DOMAIN grid : grid[p].visited}) >= 3
  /\ Len(stack) < Cardinality({p \in DOMAIN grid : grid[p].visited})
  /\ \E p \in DOMAIN grid : ~grid[p].visited

\* the stack without its first entry, followed by the current cell
StackChain == Tail(stack) \o <<current>>

\* C30: while the loop runs (non-empty stack) the stack is the origin
\* followed by the ancestors of the current cell: its first entry is the
\* origin and the entries after it, then the current cell, are the path of
\* distinct cells from the origin to the current cell along removed walls
\* (so the length is the depth of the current cell + 1).  The stack only
\* shrinks by one entry from a non-empty stack; it becomes empty only by a
\* backtrack at the origin with one entry left, when every cell is visited,
\* and the loop exits then and only then.
MazeStackDiscipline ==
  /\ []((mazePc = "loop" /\ stack # <<>>) =>
          /\ stack[1] = <<0, 0>>
          /\ StackChain[1] = <<0, 0>>
          /\ \A i \in 1 .. Len(StackChain) - 1 :
               Passage(grid, StackChain[i], StackChain[i + 1])
          /\ \A i \in 1 .. Len(StackChain) : \A j \in 1 .. Len(StackChain) :
               StackChain[i] = StackChain[j] => i = j)
  /\ [][ mazePc = "loop" =>
           /\ Len(stack') < Len(stack) =>
                Len(stack) > 0 /\ stack' = SubSeq(stack, 1, Len(stack) - 1)
           /\ (stack # <<>> /\ stack' = <<>>) =>
                /\ current = <<0, 0>> /\ Len(stack) = 1
                /\ UnvisitedSides(grid, current) = {}
                /\ \A p \in DOMAIN grid : grid[p].visited
           /\ (stack # <<>> /\ current = <<0, 0>> /\ Len(stack) = 1
                 /\ UnvisitedSides(grid, current) = {}) => stack' = <<>>
           /\ mazePc' = "done" <=> stack = <<>> ]_vars

\* the current cell is at depth 2 or more after a backtrack
C30_Witness ==
  /\ mazePc = "loop" /\ Len(stack) >= 3 /\ current # <<0, 0>>
  /\ Len(stack) < Cardinality({p \in DOMAIN grid : grid[p].visited})
  /\ stack[1] = <<0, 0>> /\ stack[2] = <<0, 0>>

(***************************************************************************)
(* generateWordSearch                                                      *)
(***************************************************************************)
\* line 40: the retry budget of one word
MaxAttemptsOneMore == 50 + 1

MaxAttempts == 50

\* word.toUpperCase(), character by character
ToUpperCase(ch) ==
  CASE ch = "a" -> "A"
    [] ch = "b" -> "B"
    [] OTHER -> ch

\* /\s/
IsWhitespace(ch) == ch \in {" "}

\* .replace(/\s/g, '')
RECURSIVE StripWhitespace(_)
StripWhitespace(w) ==
  IF w = <<>> THEN <<>>
  ELSE IF IsWhitespace(Head(w)) THEN StripWhitespace(Tail(w))
       ELSE <<Head(w)>> \o StripWhitespace(Tail(w))

\* line 35: wordUpper
NormalizeNoStrip(w) == [i \in 1 .. Len(w) |-> ToUpperCase(w[i])]

Normalize(w) == StripWhitespace([i \in 1 .. Len(w) |-> ToUpperCase(w[i])])

\* the words the generator is run on
WSWordPool ==
  { <<"a", "b">>, <<"B", " ", "A">>, <<"a", "b", "b">>, <<"a", "b", "a", "b">> }

WSWordLists ==
  {<<>>} \cup {<<w>> : w \in WSWordPool}
         \cup {<<w1, w2>> : w1 \in WSWordPool, w2 \in WSWordPool}

\* lines 24-30: every cell gets a random letter, here one of two fills
FillerLetters == <<"Q", "A", "B">>

Fillers(gs) ==
  {[p \in Cells(gs, gs) |-> FillerLetters[((p[1] + p[2] + s) % 3) + 1]] : s \in 0 .. 1}

\* Math.floor(Math.random() * n)
RandomBelow(n) == IF n > 0 THEN 0 .. n - 1 ELSE n .. 0

\* line 43: the anchor columns the generator draws from
AnchorXs(direction, len, gs) ==
  RandomBelow(gs - (IF direction = 0 \/ direction = 2 THEN len ELSE 0))

\* line 44: the anchor rows the generator draws from
AnchorYs(direction, len, gs) ==
  RandomBelow(gs - (IF direction = 1 \/ direction = 2 \/ direction = 3 THEN len ELSE 0))

\* lines 48-59 and 79-90: the cell of letter i (from 0) of a word anchored
\* at (x, y)
CellAt(direction, x, y, i) ==
  CASE direction = 0 -> <<x + i, y>>
    [] direction = 1 -> <<x, y + i>>
    [] direction = 2 -> <<x + i, y + i>>
    [] direction = 3 -> <<x - i, y + i>>

\* grid[y][x]: a row is a JavaScript array, and a column index outside
\* 0 .. gridSize-1 names a property of it that is undefined until written
ReadCell(g, p) == IF p \in DOMAIN g THEN g[p] ELSE "undefined"

\* lines 62-64: some placed word's path holds the cell
OnPlacedPathFirstCellOnly(pw, p) ==
  \E k \in 1 .. Len(pw) : Len(pw[k].path) > 0 /\ pw[k].path[1] = p

OnPlacedPath(pw, p) ==
  \E k \in 1 .. Len(pw) : \E m \in 1 .. Len(pw[k].path) : pw[k].path[m] = p

\* lines 46-74: canPlace
CanPlaceAlways(g, pw, w, direction, x, y) == TRUE

CanPlace(g, pw, w, direction, x, y) ==
  \A i \in 0 .. Len(w) - 1 :
    LET p == CellAt(direction, x, y, i)
    IN  OnPlacedPath(pw, p) => ReadCell(g, p) = w[i + 1]

\* lines 77-94: path
WordPath(w, direction, x, y) ==
  [k \in 1 .. Len(w) |-> CellAt(direction, x, y, k - 1)]

\* line 92, for every letter of the word
WriteWordRefill(g, w, path) ==
  [q \in DOMAIN g \cup {path[k] : k \in 1 .. Len(w)} |->
     IF \E k \in 1 .. Len(w) : path[k] = q
       THEN w[CHOOSE k \in 1 .. Len(w) : path[k] = q]
       ELSE "A"]

WriteWord(g, w, path) ==
  [q \in DOMAIN g \cup {path[k] : k \in 1 .. Len(w)} |->
     IF \E k \in 1 .. Len(w) : path[k] = q
       THEN w[CHOOSE k \in 1 .. Len(w) : path[k] = q]
       ELSE g[q]]

wordUpper == Normalize(words[wordIdx])

\* line 36: wordUpper.length > gridSize
TooLongOrEqual(w, gs) == Len(w) >= gs

TooLong(w, gs) == Len(w) > gs

\* generateWordSearch up to the for loop: lines 12-33
WSInit ==
  /\ words \in WSWordLists
  /\ gridSize \in 1 .. MaxGridSize
  /\ wsGrid \in Fillers(gridSize)
  /\ placedWords = <<>>
  /\ wordIdx = 1
  /\ attempts = 0
  /\ wsPc = "for"
  /\ MazeIdle /\ CWIdle /\ PDFIdle

\* lines 35-36: a word longer than the grid is skipped
WSSkipWord ==
  /\ wsPc = "for" /\ wordIdx <= Len(words)
  /\ TooLong(wordUpper, gridSize)
  /\ wordIdx' = wordIdx + 1
  /\ attempts' = 0
  /\ UNCHANGED <<words, gridSize, wsGrid, placedWords, wsPc, mazeVars, cwVars, pdfVars>>

\* lines 40-97, an attempt that finds canPlace true: the word is written
\* and recorded, placed = true ends the while loop and the for loop goes on
WSPlace ==
  /\ wsPc = "for" /\ wordIdx <= Len(words)
  /\ ~TooLong(wordUpper, gridSize)
  /\ attempts < MaxAttempts
  /\ \E direction \in 0 .. 3 :
       \E x \in AnchorXs(direction, Len(wordUpper), gridSize) :
         \E y \in AnchorYs(direction, Len(wordUpper), gridSize) :
           /\ CanPlace(wsGrid, placedWords, wordUpper, direction, x, y)
           /\ LET path == WordPath(wordUpper, direction, x, y)
              IN  /\ wsGrid' = WriteWord(wsGrid, wordUpper, path)
                  /\ placedWords' =
                       Append(placedWords, [word |-> wordUpper, path |-> path])
  /\ wordIdx' = wordIdx + 1
  /\ attempts' = 0
  /\ UNCHANGED <<words, gridSize, wsPc, mazeVars, cwVars, pdfVars>>

\* lines 40-74, an attempt that finds a conflict: only attempts changes
WSReject ==
  /\ wsPc = "for" /\ wordIdx <= Len(words)
  /\ ~TooLong(wordUpper, gridSize)
  /\ attempts < MaxAttempts
  /\ \E direction \in 0 .. 3 :
       \E x \in AnchorXs(direction, Len(wordUpper), gridSize) :
         \E y \in AnchorYs(direction, Len(wordUpper), gridSize) :
           ~CanPlace(wsGrid, placedWords, wordUpper, direction, x, y)
  /\ attempts' = attempts + 1
  /\ UNCHANGED <<words, gridSize, wsGrid, placedWords, wordIdx, wsPc, mazeVars, cwVars, pdfVars>>

\* line 40: the budget is spent and the word is dropped
WSGiveUp ==
  /\ wsPc = "for" /\ wordIdx <= Len(words)
  /\ ~TooLong(wordUpper, gridSize)
  /\ attempts >= MaxAttempts
  /\ wordIdx' = wordIdx + 1
  /\ attempts' = 0
  /\ UNCHANGED <<words, gridSize, wsGrid, placedWords, wsPc, mazeVars, cwVars, pdfVars>>

\* the for loop has ended: the grid is drawn (lines 101 and on)
WSFinish ==
  /\ wsPc = "for" /\ wordIdx > Len(words)
  /\ wsPc' = "done"
  /\ UNCHANGED <<words, gridSize, wsGrid, placedWords, wordIdx, attempts, mazeVars, cwVars, pdfVars>>

WSNext == WSSkipWord \/ WSPlace \/ WSReject \/ WSGiveUp \/ WSFinish

SpecWS == WSInit /\ [][WSNext]_vars

\* generateWordSearch runs inside one effect callback: its statements run
\* one after the other until the loops end
SpecWSFair == SpecWS /\ WF_vars(WSNext)

(***************************************************************************)
(* Properties of generateWordSearch                                        *)
(***************************************************************************)
\* C3: any two placed words whose paths share a cell assign the same letter
\* to it.
WSOverlapConsistency ==
  \A j \in 1 .. Len(placedWords) : \A k \in 1 .. Len(placedWords) :
    \A a \in 1 .. Len(placedWords[j].path) :
      \A b \in 1 .. Len(placedWords[k].path) :
        placedWords[j].path[a] = placedWords[k].path[b]
          => placedWords[j].word[a] = placedWords[k].word[b]

C3_Witness ==
  /\ Len(placedWords) = 2
  /\ \E a \in 1 .. Len(placedWords[1].path) :
       \E b \in 1 .. Len(placedWords[2].path) :
         /\ placedWords[1].path[a] = placedWords[2].path[b]
         /\ placedWords[1].word[a] = placedWords[2].word[b]
         /\ placedWords[1].word # placedWords[2].word

\* C4: every cell of every placed word's path lies inside the grid.
WSPlacementInBounds ==
  \A k \in 1 .. Len(placedWords) :
    \A m \in 1 .. Len(placedWords[k].path) :
      /\ 0 <= placedWords[k].path[m][1] /\ placedWords[k].path[m][1] < gridSize
      /\ 0 <= placedWords[k].path[m][2] /\ placedWords[k].path[m][2] < gridSize

\* w without its whitespace characters, and the upper-case form of a
\* character, as the claims name them
WithoutSpaces(w) == SelectSeq(w, LAMBDA ch : ch # " ")

UpperCaseOf(ch) == IF ch = "a" THEN "A" ELSE IF ch = "b" THEN "B" ELSE ch

IsNormalFormOf(p, w) ==
  /\ Len(p) = Len(WithoutSpaces(w))
  /\ \A k \in 1 .. Len(p) : p[k] = UpperCaseOf(WithoutSpaces(w)[k])

\* C14: there are never more placed words than input words; the placed
\* words come from distinct input words, in input order, among those the for
\* loop has reached; every placed word is the upper-cased, whitespace
\* stripped form of its input word.
WSCoverageBound ==
  /\ Len(placedWords) <= Len(words)
  /\ \E f \in [1 .. Len(placedWords) -> 1 .. Len(words)] :
       /\ \A j \in 1 .. Len(placedWords) : \A k \in 1 .. Len(placedWords) :
            j < k => f[j] < f[k]
       /\ \A k \in 1 .. Len(placedWords) :
            /\ f[k] < wordIdx
            /\ IsNormalFormOf(placedWords[k].word, words[f[k]])

C14_Witness ==
  /\ wsPc = "done" /\ Len(words) = 2 /\ Len(placedWords) = 1
  /\ words[1] = <<"a", "b", "b">> /\ words[2] = <<"B", " ", "A">>
  /\ placedWords[1].word = <<"B", "A">>

\* C15: a word whose normalized length exceeds gridSize is skipped without
\* an attempt: the step leaves grid, placed list and attempt count as they
\* were and moves to the next word with no error, so no placed word is
\* longer than gridSize; a word whose normalized length equals gridSize is
\* not skipped: the loop leaves it only by placing it or after MaxAttempts
\* failed attempts.
WSOversizeSkipped ==
  /\ [](\A k \in 1 .. Len(placedWords) : Len(placedWords[k].word) <= gridSize)
  /\ [][ (wsPc = "for" /\ wordIdx <= Len(words)) =>
           LET n == Len(WithoutSpaces(words[wordIdx]))
           IN  /\ n > gridSize =>
                    /\ wordIdx' = wordIdx + 1 /\ wsPc' = "for"
                    /\ attempts = 0 /\ attempts' = 0
                    /\ UNCHANGED <<wsGrid, placedWords>>
               /\ (n = gridSize /\ wordIdx' # wordIdx) =>
                    \/ Len(placedWords') = Len(placedWords) + 1
                    \/ attempts >= MaxAttempts ]_vars

C15_Witness ==
  /\ wsPc = "done" /\ Len(words) = 2 /\ Len(placedWords) = 1
  /\ Len(WithoutSpaces(words[1])) > gridSize
  /\ Len(WithoutSpaces(words[2])) = gridSize
  /\ placedWords[1].word = <<"A", "B">>

\* C21: a word that is not skipped gets at most 50 attempts; the accepted
\* attempt is the last one for its word; a word whose 50 attempts were all
\* rejected is left without a record and without an error and the loop
\* goes on to the next word; generateWordSearch reaches its end.
WSRetryBudget ==
  /\ [](attempts <= 50)
  /\ [][ (wsPc = "for" /\ wordIdx <= Len(words)) =>
           /\ attempts' # attempts =>
                \/ attempts' = attempts + 1 /\ attempts < 50
                      /\ UNCHANGED <<wordIdx, placedWords, wsGrid>>
                \/ attempts' = 0 /\ wordIdx' = wordIdx + 1
           /\ placedWords' # placedWords =>
                /\ attempts < 50 /\ attempts' = 0 /\ wordIdx' = wordIdx + 1
                /\ Len(placedWords') = Len(placedWords) + 1
           /\ (attempts = 50 /\ wordIdx' # wordIdx) =>
                /\ wordIdx' = wordIdx + 1 /\ wsPc' = "for"
                /\ UNCHANGED <<placedWords, wsGrid>> ]_vars
  /\ <>(wsPc = "done")

\* the second word fits the grid and is not placed: its 50 attempts failed
C21_Witness ==
  /\ wsPc = "done" /\ Len(words) = 2 /\ Len(placedWords) = 1
  /\ Len(WithoutSpaces(words[1])) <= gridSize
  /\ Len(WithoutSpaces(words[2])) <= gridSize

\* C22: a step that adds no placed word leaves the letter grid as it was; a
\* step that adds one changes only cells of the new word's path; so every
\* cell of the grid on no placed word's path holds the letter of the
\* initial fill.
WSFillerFrame ==
  /\ [][ /\ placedWords' = placedWords => wsGrid' = wsGrid
         /\ placedWords' # placedWords =>
              /\ Len(placedWords') = Len(placedWords) + 1
              /\ \A q \in DOMAIN wsGrid :
                   ~OnPlacedPath(<<placedWords'[Len(placedWords')]>>, q)
                     => q \in DOMAIN wsGrid' /\ wsGrid'[q] = wsGrid[q]
              /\ \A q \in DOMAIN wsGrid' \ DOMAIN wsGrid :
                   OnPlacedPath(<<placedWords'[Len(placedWords')]>>, q) ]_vars
  /\ [](wsPc \in {"for", "done"} =>
         \E f \in Fillers(gridSize) :
           \A q \in Cells(gridSize, gridSize) :
             ~OnPlacedPath(placedWords, q) => wsGrid[q] = f[q])

\* a final grid with a placed word that replaced a filler letter and with
\* cells on no path
C22_Witness ==
  /\ wsPc = "done" /\ gridSize = 3 /\ Len(placedWords) >= 1
  /\ \E f \in Fillers(gridSize) :
       /\ \E q \in Cells(gridSize, gridSize) : ~OnPlacedPath(placedWords, q)
       /\ \A q \in Cells(gridSize, gridSize) :
            ~OnPlacedPath(placedWords, q) => wsGrid[q] = f[q]
       /\ \E q \in Cells(gridSize, gridSize) :
            OnPlacedPath(placedWords, q) /\ wsGrid[q] # f[q]

\* the step from one path cell to the next in each of the four directions
DirectionSteps == {<<1, 0>>, <<0, 1>>, <<1, 1>>, <<-1, 1>>}

\* C27: in every state, the final one included, every placed word w has a
\* path of exactly len(w) cells, each one step after the one before in one
\* of the four directions, and the grid letter at the i-th path cell is the
\* i-th letter of w: no later placement has replaced it by another letter.
WSWordsFindable ==
  \A k \in 1 .. Len(placedWords) :
    LET w == placedWords[k].word
        path == placedWords[k].path
    IN  /\ Len(path) = Len(w)
        /\ \E st \in DirectionSteps :
             \A i \in 1 .. Len(path) - 1 :
               path[i + 1] = <<path[i][1] + st[1], path[i][2] + st[2]>>
        /\ \A i \in 1 .. Len(path) : ReadCell(wsGrid, path[i]) = w[i]

\* two placed words of different text whose paths cross, in the final grid
C27_Witness ==
  /\ wsPc = "done" /\ Len(placedWords) = 2
  /\ placedWords[1].word # placedWords[2].word
  /\ \E a \in 1 .. Len(placedWords[1].path) :
       \E b \in 1 .. Len(placedWords[2].path) :
         /\ placedWords[1].path[a] = placedWords[2].path[b]
         /\ wsGrid[placedWords[1].path[a]] = placedWords[1].word[a]
  /\ placedWords[1].path[2] # placedWords[2].path[2]

(***************************************************************************)
(* generateCrossword                                                       *)
(***************************************************************************)
\* line 62
CWGridSize == 15

\* line 87: Math.min(words.length, 8)
CWWordLimitNine == 8 + 1

CWWordLimit == 8

\* the word lists the generator is run on hold up to CWMaxWords words
CWMaxWords == 3

CWWordPool ==
  { <<"N", "O", "A", "H">>, <<"A", "R", "K">>, <<"B", "O", "A", "T">>,
    <<"O", "A", "T">>, <<"N", "E", "T">>, <<"X", "Y", "Z">>,
    <<"R", "E", "S", "P", "O", "N", "S", "I", "B", "I", "L", "I", "T", "I", "E", "S">> }

CWWordLists ==
  UNION {[1 .. n -> CWWordPool] : n \in 0 .. CWMaxWords}

\* lists of more than CWWordLimit words: a ninth word (ARK) that would cross
\* the seed, and a list whose eighth word is placed and whose ninth and
\* tenth would fit
CWLongLists ==
  { <<<<"N", "O", "A", "H">>>> \o [k \in 1 .. 7 |-> <<"X", "Y", "Z">>]
        \o <<<<"A", "R", "K">>>>,
    <<<<"N", "O", "A", "H">>, <<"A", "R", "K">>>> \o [k \in 1 .. 5 |-> <<"X", "Y", "Z">>]
        \o <<<<"N", "E", "T">>, <<"B", "O", "A", "T">>, <<"O", "A", "T">>>> }

\* lines 208-227: the clue dictionary, for the words of the pool it holds
Clues ==
     (<<"N", "O", "A", "H">> :> "Built the big boat")
  @@ (<<"A", "R", "K">> :> "Big floating boat")
  @@ (<<"B", "O", "A", "T">> :> "Floats on water")

\* line 229
getClue(word) ==
  IF word \in DOMAIN Clues THEN Clues[word]
  ELSE <<word, " (starts with ", IF Len(word) > 0 THEN word[1] ELSE "", ")">>

\* line 63
EmptyCWGrid == [q \in (0 .. CWGridSize - 1) \X (0 .. CWGridSize - 1) |-> "_"]

\* the cell of letter i (from 0) of a word anchored at (row, col)
SpanCell(row, col, vertical, i) ==
  IF vertical THEN <<row + i, col>> ELSE <<row, col + i>>

Span(word, row, col, vertical) ==
  {SpanCell(row, col, vertical, i) : i \in 0 .. Len(word) - 1}

\* lines 161-193
canPlaceWordNoLetterCheck(g, word, row, col, vertical) ==
  LET n == Len(word)
      size == CWGridSize
  IN  IF vertical
      THEN /\ ~(row < 0 \/ row + n > size)
           /\ \A i \in 0 .. n - 1 :
                LET cell == ReadCell(g, <<row + i, col>>)
                IN  cell = "_" =>
                      /\ ~(col > 0 /\ ReadCell(g, <<row + i, col - 1>>) # "_")
                      /\ ~(col < size - 1 /\ ReadCell(g, <<row + i, col + 1>>) # "_")
                      /\ ~(i = 0 /\ row > 0 /\ ReadCell(g, <<row - 1, col>>) # "_")
                      /\ ~(i = n - 1 /\ row + n < size
                             /\ ReadCell(g, <<row + n, col>>) # "_")
      ELSE /\ ~(col < 0 \/ col + n > size)
           /\ \A i \in 0 .. n - 1 :
                LET cell == ReadCell(g, <<row, col + i>>)
                IN  cell = "_" =>
                      /\ ~(row > 0 /\ ReadCell(g, <<row - 1, col + i>>) # "_")
                      /\ ~(row < size - 1 /\ ReadCell(g, <<row + 1, col + i>>) # "_")
                      /\ ~(i = 0 /\ col > 0 /\ ReadCell(g, <<row, col - 1>>) # "_")
                      /\ ~(i = n - 1 /\ col + n < size
                             /\ ReadCell(g, <<row, col + n>>) # "_")

canPlaceWordOneSide(g, word, row, col, vertical) ==
  LET n == Len(word)
      size == CWGridSize
  IN  IF vertical
      THEN /\ ~(row < 0 \/ row + n > size)
           /\ \A i \in 0 .. n - 1 :
                LET cell == ReadCell(g, <<row + i, col>>)
                IN  /\ ~(cell # "_" /\ cell # word[i + 1])
                    /\ cell = "_" =>
                         /\ ~(col > 0 /\ ReadCell(g, <<row + i, col - 1>>) # "_")
                         /\ ~(i = 0 /\ row > 0 /\ ReadCell(g, <<row - 1, col>>) # "_")
                         /\ ~(i = n - 1 /\ row + n < size
                                /\ ReadCell(g, <<row + n, col>>) # "_")
      ELSE /\ ~(col < 0 \/ col + n > size)
           /\ \A i \in 0 .. n - 1 :
                LET cell == ReadCell(g, <<row, col + i>>)
                IN  /\ ~(cell # "_" /\ cell # word[i + 1])
                    /\ cell = "_" =>
                         /\ ~(row > 0 /\ ReadCell(g, <<row - 1, col + i>>) # "_")
                         /\ ~(i = 0 /\ col > 0 /\ ReadCell(g, <<row, col - 1>>) # "_")
                         /\ ~(i = n - 1 /\ col + n < size
                                /\ ReadCell(g, <<row, col + n>>) # "_")

canPlaceWord(g, word, row, col, vertical) ==
  LET n == Len(word)
      size == CWGridSize
  IN  IF vertical
      THEN /\ ~(row < 0 \/ row + n > size)
           /\ \A i \in 0 .. n - 1 :
                LET cell == ReadCell(g, <<row + i, col>>)
                IN  /\ ~(cell # "_" /\ cell # word[i + 1])
                    /\ cell = "_" =>
                         /\ ~(col > 0 /\ ReadCell(g, <<row + i, col - 1>>) # "_")
                         /\ ~(col < size - 1 /\ ReadCell(g, <<row + i, col + 1>>) # "_")
                         /\ ~(i = 0 /\ row > 0 /\ ReadCell(g, <<row - 1, col>>) # "_")
                         /\ ~(i = n - 1 /\ row + n < size
                                /\ ReadCell(g, <<row + n, col>>) # "_")
      ELSE /\ ~(col < 0 \/ col + n > size)
           /\ \A i \in 0 .. n - 1 :
                LET cell == ReadCell(g, <<row, col + i>>)
                IN  /\ ~(cell # "_" /\ cell # word[i + 1])
                    /\ cell = "_" =>
                         /\ ~(row > 0 /\ ReadCell(g, <<row - 1, col + i>>) # "_")
                         /\ ~(row < size - 1 /\ ReadCell(g, <<row + 1, col + i>>) # "_")
                         /\ ~(i = 0 /\ col > 0 /\ ReadCell(g, <<row, col - 1>>) # "_")
                         /\ ~(i = n - 1 /\ col + n < size
                                /\ ReadCell(g, <<row, col + n>>) # "_")

\* lines 195-205, and the loop of lines 75-77 for the first word
placeWord(g, word, row, col, vertical) ==
  [q \in DOMAIN g \cup Span(word, row, col, vertical) |->
     IF q \in Span(word, row, col, vertical)
       THEN word[(IF vertical THEN q[1] - row ELSE q[2] - col) + 1]
       ELSE g[q]]

\* lines 72-73
startRow == CWGridSize \div 2

startCol(firstWord) == (CWGridSize - Len(firstWord)) \div 2

\* lines 99-107: the anchor that puts letter i of the word on letter j of
\* placedWord (both from 0)
newRow(placedWord, i, j) ==
  IF placedWord.vertical THEN placedWord.row + j ELSE placedWord.row - i

newCol(placedWord, i, j) ==
  IF placedWord.vertical THEN placedWord.col - i ELSE placedWord.col + j

\* lines 92-109: the (i, placed word, j) with matching letters that
\* canPlaceWord accepts
Fits(g, placed, word) ==
  UNION { UNION { {<<i, p, j>> : j \in {jj \in 0 .. Len(placed[p].text) - 1 :
                      /\ placed[p].text[jj + 1] = word[i + 1]
                      /\ canPlaceWord(g, word, newRow(placed[p], i, jj),
                                      newCol(placed[p], i, jj), ~placed[p].vertical)}}
                  : p \in 1 .. Len(placed) }
          : i \in 0 .. Len(word) - 1 }

\* the order of the three loops: i outermost, then the placed words, then j
ScannedBeforePlacedFirst(c, d) ==
  \/ c[2] < d[2]
  \/ c[2] = d[2] /\ c[1] < d[1]
  \/ c[2] = d[2] /\ c[1] = d[1] /\ c[3] <= d[3]

ScannedBefore(c, d) ==
  \/ c[1] < d[1]
  \/ c[1] = d[1] /\ c[2] < d[2]
  \/ c[1] = d[1] /\ c[2] = d[2] /\ c[3] <= d[3]

FirstFit(g, placed, word) ==
  CHOOSE c \in Fits(g, placed, word) :
    \A d \in Fits(g, placed, word) : ScannedBefore(c, d)

\* lines 111-116
PlacedEntrySameDirection(word, placedWord, i, j) ==
  [text |-> word, row |-> newRow(placedWord, i, j),
   col |-> newCol(placedWord, i, j), vertical |-> placedWord.vertical]

PlacedEntry(word, placedWord, i, j) ==
  [text |-> word, row |-> newRow(placedWord, i, j),
   col |-> newCol(placedWord, i, j), vertical |-> ~placedWord.vertical]

\* lines 128-135: map visits the indices 0 .. length-1 of every row, so a
\* letter stored under a negative column has no display cell
displayGridOf(g) ==
  [q \in {c \in DOMAIN g : c[2] >= 0} |->
     [letter |-> IF g[q] = "_" THEN "" ELSE g[q],
      isBlack |-> g[q] = "_",
      hasNumber |-> FALSE,
      number |-> 0]]          \* null

\* lines 142-156, from placed word k on with clueNum = k; d is the display
\* grid, a and dn the clue lists so far.  displayGrid[gridRow][gridCol] of a
\* missing cell is undefined and setting hasNumber on it throws.
RECURSIVE NumberFromPerList(_, _, _, _, _)
NumberFromPerList(k, placed, d, a, dn) ==
  IF k > Len(placed)
    THEN [returned |-> TRUE, grid |-> d, across |-> a, down |-> dn]
  ELSE IF <<placed[k].row, placed[k].col>> \notin DOMAIN d
    THEN [returned |-> FALSE, grid |-> <<>>, across |-> <<>>, down |-> <<>>]
  ELSE LET num == IF placed[k].vertical THEN Len(dn) + 1 ELSE Len(a) + 1
           d2 == [d EXCEPT ![<<placed[k].row, placed[k].col>>] =
                       [@ EXCEPT !.hasNumber = TRUE, !.number = num]]
           entry == [number |-> num, clue |-> getClue(placed[k].text)]
       IN  IF placed[k].vertical
             THEN NumberFromPerList(k + 1, placed, d2, a, Append(dn, entry))
             ELSE NumberFromPerList(k + 1, placed, d2, Append(a, entry), dn)

RECURSIVE NumberFrom(_, _, _, _, _)
NumberFrom(k, placed, d, a, dn) ==
  IF k > Len(placed)
    THEN [returned |-> TRUE, grid |-> d, across |-> a, down |-> dn]
  ELSE IF <<placed[k].row, placed[k].col>> \notin DOMAIN d
    THEN [returned |-> FALSE, grid |-> <<>>, across |-> <<>>, down |-> <<>>]
  ELSE LET d2 == [d EXCEPT ![<<placed[k].row, placed[k].col>>] =
                       [@ EXCEPT !.hasNumber = TRUE, !.number = k]]
           entry == [number |-> k, clue |-> getClue(placed[k].text)]
       IN  IF placed[k].vertical
             THEN NumberFrom(k + 1, placed, d2, a, Append(dn, entry))
             ELSE NumberFrom(k + 1, placed, d2, Append(a, entry), dn)

\* line 68
EmptyResultWithGrid ==
  [returned |-> TRUE, grid |-> displayGridOf(EmptyCWGrid), across |-> <<>>, down |-> <<>>]

EmptyResult == [returned |-> TRUE, grid |-> <<>>, across |-> <<>>, down |-> <<>>]

\* generateCrossword(words) is entered: lines 61-64
CWInit ==
  /\ cwWords \in CWWordLists \cup CWLongLists
  /\ cwGrid = EmptyCWGrid
  /\ cwPlaced = <<>>
  /\ cwWordIdx = 1
  /\ result = NoResult
  /\ cwPc = "start"
  /\ MazeIdle /\ WSIdle /\ PDFIdle

\* lines 67-69
CWReturnEmpty ==
  /\ cwPc = "start"
  /\ Len(cwWords) = 0
  /\ result' = EmptyResult
  /\ cwPc' = "done"
  /\ UNCHANGED <<cwWords, cwGrid, cwPlaced, cwWordIdx, mazeVars, wsVars, pdfVars>>

\* lines 71-84
CWPlaceFirst ==
  /\ cwPc = "start"
  /\ Len(cwWords) > 0
  /\ LET firstWord == cwWords[1]
     IN  /\ cwGrid' = placeWord(cwGrid, firstWord, startRow, startCol(firstWord), FALSE)
         /\ cwPlaced' = <<[text |-> firstWord, row |-> startRow,
                           col |-> startCol(firstWord), vertical |-> FALSE]>>
  /\ cwWordIdx' = 2
  /\ cwPc' = "place"
  /\ UNCHANGED <<cwWords, result, mazeVars, wsVars, pdfVars>>

MinOf(a, b) == IF a < b THEN a ELSE b

\* lines 87-125, an iteration of the for loop that places the word
CWPlaceWord ==
  /\ cwPc = "place"
  /\ cwWordIdx <= MinOf(Len(cwWords), CWWordLimit)
  /\ LET word == cwWords[cwWordIdx]
     IN  /\ Fits(cwGrid, cwPlaced, word) # {}
         /\ LET c == FirstFit(cwGrid, cwPlaced, word)
                e == PlacedEntry(word, cwPlaced[c[2]], c[1], c[3])
            IN  /\ cwGrid' = placeWord(cwGrid, word, e.row, e.col, e.vertical)
                /\ cwPlaced' = Append(cwPlaced, e)
  /\ cwWordIdx' = cwWordIdx + 1
  /\ UNCHANGED <<cwWords, result, cwPc, mazeVars, wsVars, pdfVars>>

\* lines 87-125, an iteration of the for loop that finds no placement
CWDropWord ==
  /\ cwPc = "place"
  /\ cwWordIdx <= MinOf(Len(cwWords), CWWordLimit)
  /\ Fits(cwGrid, cwPlaced, cwWords[cwWordIdx]) = {}
  /\ cwWordIdx' = cwWordIdx + 1
  /\ UNCHANGED <<cwWords, cwGrid, cwPlaced, result, cwPc, mazeVars, wsVars, pdfVars>>

\* lines 127-158
CWNumber ==
  /\ cwPc = "place"
  /\ cwWordIdx > MinOf(Len(cwWords), CWWordLimit)
  /\ LET r == NumberFrom(1, cwPlaced, displayGridOf(cwGrid), <<>>, <<>>)
     IN  /\ r.returned
         /\ result' = r
  /\ cwPc' = "done"
  /\ UNCHANGED <<cwWords, cwGrid, cwPlaced, cwWordIdx, mazeVars, wsVars, pdfVars>>

\* lines 142-147 with an anchor that has no display cell: a TypeError leaves
\* generateCrossword
CWNumberThrows ==
  /\ cwPc = "place"
  /\ cwWordIdx > MinOf(Len(cwWords), CWWordLimit)
  /\ ~NumberFrom(1, cwPlaced, displayGridOf(cwGrid), <<>>, <<>>).returned
  /\ cwPc' = "threw"
  /\ UNCHANGED <<cwWords, cwGrid, cwPlaced, cwWordIdx, result, mazeVars, wsVars, pdfVars>>

CWNext ==
  CWReturnEmpty \/ CWPlaceFirst \/ CWPlaceWord \/ CWDropWord \/ CWNumber
    \/ CWNumberThrows

SpecCW == CWInit /\ [][CWNext]_vars

(***************************************************************************)
(* Properties of generateCrossword                                         *)
(***************************************************************************)
InCWGrid(q) ==
  /\ 0 <= q[1] /\ q[1] < CWGridSize
  /\ 0 <= q[2] /\ q[2] < CWGridSize

\* a cell of the 15x15 grid that holds a letter
Occupied(g, q) == InCWGrid(q) /\ ReadCell(g, q) # "_"

CellBefore(e) == SpanCell(e.row, e.col, e.vertical, -1)
CellAfter(e) == SpanCell(e.row, e.col, e.vertical, Len(e.text))

LastPlaced == cwPlaced[Len(cwPlaced)]

\* C5: the word that canPlaceWord accepted last has no letter in the cell
\* before its first cell nor in the cell after its last cell, in its own
\* direction (placeWord writes the span only, so the two cells are as they
\* were when canPlaceWord returned true).
CWEndCapClearance ==
  Len(cwPlaced) >= 2 =>
    /\ ~Occupied(cwGrid, CellBefore(LastPlaced))
    /\ ~Occupied(cwGrid, CellAfter(LastPlaced))

\* C6: every placed word but the first is perpendicular to an earlier placed
\* word and shares a cell with it where both have the same letter, the
\* letter the grid holds there.
CWIntersectionValidity ==
  \A k \in 2 .. Len(cwPlaced) :
    \E e \in 1 .. k - 1 :
      /\ cwPlaced[e].vertical # cwPlaced[k].vertical
      /\ \E i \in 0 .. Len(cwPlaced[k].text) - 1 :
           \E j \in 0 .. Len(cwPlaced[e].text) - 1 :
             /\ SpanCell(cwPlaced[k].row, cwPlaced[k].col, cwPlaced[k].vertical, i)
                  = SpanCell(cwPlaced[e].row, cwPlaced[e].col, cwPlaced[e].vertical, j)
             /\ cwPlaced[k].text[i + 1] = cwPlaced[e].text[j + 1]
             /\ ReadCell(cwGrid,
                   SpanCell(cwPlaced[k].row, cwPlaced[k].col, cwPlaced[k].vertical, i))
                  = cwPlaced[k].text[i + 1]

\* ["NOAH", "ARK"]: ARK stands vertically on the A of NOAH
C6_Witness ==
  /\ cwWords = << <<"N", "O", "A", "H">>, <<"A", "R", "K">> >>
  /\ Len(cwPlaced) = 2
  /\ cwPlaced[2] = [text |-> <<"A", "R", "K">>, row |-> 7, col |-> 7, vertical |-> TRUE]
  /\ cwGrid[<<7, 7>>] = "A"

Numbers(list) == {list[n].number : n \in 1 .. Len(list)}

\* C7: in a returned result with k placed words the clue numbers of the
\* across and down lists together are exactly 1..k without repeats, number i
\* is carried by the clue of the i-th placed word, and it stands in the
\* across list iff that word is horizontal, in the down list iff vertical.
CWClueNumbering ==
  (result.returned /\ Len(cwWords) > 0) =>
    /\ Numbers(result.across) \cup Numbers(result.down) = 1 .. Len(cwPlaced)
    /\ Len(result.across) + Len(result.down) = Len(cwPlaced)
    /\ \A i \in 1 .. Len(cwPlaced) :
         LET entry == [number |-> i, clue |-> getClue(cwPlaced[i].text)]
         IN  /\ (\E n \in 1 .. Len(result.across) : result.across[n] = entry)
                  <=> ~cwPlaced[i].vertical
             /\ (\E n \in 1 .. Len(result.down) : result.down[n] = entry)
                  <=> cwPlaced[i].vertical

\* a result with two across clues (1 and 3) and a down clue (2)
C7_Witness ==
  /\ result.returned
  /\ Len(cwPlaced) = 3
  /\ Numbers(result.across) = {1, 3}
  /\ Numbers(result.down) = {2}

\* C8: once generateCrossword has ended on a non-empty word list, the first
\* word is placed horizontally at row 7 from column floor((15 - len)/2) and
\* is the across clue number 1 of the result; a single-word list gives
\* exactly one across clue and no down clue.
CWSeedPlacement ==
  (cwPc \in {"done", "threw"} /\ Len(cwWords) > 0) =>
    /\ cwPlaced[1] = [text |-> cwWords[1], row |-> 7,
                      col |-> (15 - Len(cwWords[1])) \div 2, vertical |-> FALSE]
    /\ \A i \in 0 .. Len(cwWords[1]) - 1 :
         ReadCell(cwGrid, <<7, ((15 - Len(cwWords[1])) \div 2) + i>>) = cwWords[1][i + 1]
    /\ result.returned
    /\ Len(result.across) >= 1
    /\ result.across[1] = [number |-> 1, clue |-> getClue(cwWords[1])]
    /\ Len(cwWords) = 1 => Len(result.across) = 1 /\ Len(result.down) = 0

\* the same for a first word that fits the grid
CWSeedPlacementShortWord ==
  Len(cwWords) > 0 /\ Len(cwWords[1]) <= CWGridSize => CWSeedPlacement

\* C9: on an empty word list generateCrossword places nothing, does not
\* throw, and returns {grid: [], across: [], down: []}.
CWEmptyInput ==
  Len(cwWords) = 0 =>
    /\ cwPc \in {"idle", "start", "done"}
    /\ cwPlaced = <<>>
    /\ \A q \in DOMAIN cwGrid : cwGrid[q] = "_"
    /\ cwPc = "done" =>
         /\ result.returned
         /\ DOMAIN result.grid = {}
         /\ Len(result.across) = 0
         /\ Len(result.down) = 0

C9_Witness ==
  /\ cwPc = "done" /\ Len(cwWords) = 0
  /\ result.returned /\ DOMAIN result.grid = {}

EntrySpan(e) == Span(e.text, e.row, e.col, e.vertical)

\* the step of the for loop on a word that no candidate fits changes the
\* loop position only
CWDropFrame ==
  [][ ( /\ cwPc = "place"
        /\ cwWordIdx <= MinOf(Len(cwWords), CWWordLimit)
        /\ Fits(cwGrid, cwPlaced, cwWords[cwWordIdx]) = {} ) =>
      /\ cwWordIdx' = cwWordIdx + 1 /\ cwPc' = "place"
      /\ UNCHANGED <<cwGrid, cwPlaced, result>> ]_vars

\* C16: when generateCrossword has ended on a list in which some word found
\* no placement, it has raised no error and has returned a result; when
\* only the seed word is placed the result holds the seed's across clue and
\* no down clue.
CWUnplaceableWord ==
  (cwPc \in {"done", "threw"} /\ Len(cwPlaced) < MinOf(Len(cwWords), CWWordLimit)) =>
    /\ cwPc = "done"
    /\ result.returned
    /\ Len(cwPlaced) = 1 => Len(result.across) = 1 /\ Len(result.down) = 0

\* C23: generateCrossword visits the first 8 input words only: the seed is
\* the first word and a later entry is the word at the loop position, which
\* is never past the eighth; there are at most min(len(words), 8) placed
\* entries; the grid holds letters of placed entries only and a returned
\* result has one clue per placed entry.
CWEightWordBound ==
  /\ [](Len(cwPlaced) <= (IF Len(cwWords) < 8 THEN Len(cwWords) ELSE 8))
  /\ [](\A q \in DOMAIN cwGrid :
          cwGrid[q] # "_" =>
            \E k \in 1 .. Len(cwPlaced) : q \in EntrySpan(cwPlaced[k]))
  /\ []((result.returned /\ Len(cwWords) > 0) =>
          Len(result.across) + Len(result.down) = Len(cwPlaced))
  /\ [][ cwPlaced' # cwPlaced =>
           /\ Len(cwPlaced') = Len(cwPlaced) + 1
           /\ cwWordIdx <= 8
           /\ cwPlaced'[Len(cwPlaced')].text = cwWords[cwWordIdx] ]_vars

\* ten words: the eighth (NET) is placed, the ninth and tenth are not tried
C23_Witness ==
  /\ cwPc = "done" /\ Len(cwWords) = 10 /\ Len(cwPlaced) = 3
  /\ cwPlaced[3].text = cwWords[8]
  /\ Len(result.across) + Len(result.down) = 3

\* C25: on a non-empty word list every placed entry, the seed included,
\* lies in the 15x15 grid, and generateCrossword does not throw.
CWEntriesInGrid ==
  /\ \A k \in 1 .. Len(cwPlaced) : \A q \in EntrySpan(cwPlaced[k]) : InCWGrid(q)
  /\ cwPc # "threw"

\* the letter of entry e at cell q of its span
LetterAt(e, q) == e.text[(IF e.vertical THEN q[1] - e.row ELSE q[2] - e.col) + 1]

\* C26: in every state every placed entry reads its own text along its
\* span in the letter grid, and every cell that holds a letter lies on the
\* span of a placed entry; the same holds of the letters of the display
\* grid of a returned result, whose other cells are black.
CWLetterIntegrity ==
  /\ \A k \in 1 .. Len(cwPlaced) : \A q \in EntrySpan(cwPlaced[k]) :
       ReadCell(cwGrid, q) = LetterAt(cwPlaced[k], q)
  /\ \A q \in DOMAIN cwGrid :
       cwGrid[q] # "_" => \E k \in 1 .. Len(cwPlaced) : q \in EntrySpan(cwPlaced[k])
  /\ (result.returned /\ Len(cwWords) > 0) =>
       /\ \A k \in 1 .. Len(cwPlaced) : \A q \in EntrySpan(cwPlaced[k]) :
            /\ q \in DOMAIN result.grid
            /\ result.grid[q].letter = LetterAt(cwPlaced[k], q)
            /\ ~result.grid[q].isBlack
       /\ \A q \in DOMAIN result.grid :
            (\A k \in 1 .. Len(cwPlaced) : q \notin EntrySpan(cwPlaced[k]))
              => result.grid[q].isBlack /\ result.grid[q].letter = ""

\* three entries in a returned result, the third crossing an earlier one
C26_Witness ==
  /\ result.returned /\ Len(cwPlaced) = 3
  /\ \E q \in EntrySpan(cwPlaced[3]) :
       /\ q \in EntrySpan(cwPlaced[1]) \cup EntrySpan(cwPlaced[2])
       /\ result.grid[q].letter = LetterAt(cwPlaced[3], q)
  /\ cwPlaced[1].text # cwPlaced[2].text /\ cwPlaced[2].text # cwPlaced[3].text
  /\ cwPlaced[1].text # cwPlaced[3].text

\* the cells of placed word k that a word placed before it occupies
SharedWithEarlier(k) ==
  {q \in EntrySpan(cwPlaced[k]) : \E e \in 1 .. k - 1 : q \in EntrySpan(cwPlaced[e])}

\* C17: every placed word but the first shares exactly one cell, the matched
\* intersection cell, with the letters placed before it.
CWSingleSharedCell ==
  \A k \in 2 .. Len(cwPlaced) : Cardinality(SharedWithEarlier(k)) = 1

\* C18: in a returned result the display cell at the anchor of the i-th
\* placed entry has hasNumber = TRUE and the clue number i of that entry;
\* the cells that are no entry's anchor have hasNumber = FALSE.
CWAnchorNumbers ==
  (result.returned /\ Len(cwWords) > 0) =>
    /\ \A i \in 1 .. Len(cwPlaced) :
         LET anchor == <<cwPlaced[i].row, cwPlaced[i].col>>
         IN  /\ anchor \in DOMAIN result.grid
             /\ result.grid[anchor].hasNumber
             /\ result.grid[anchor].number = i
    /\ \A q \in DOMAIN result.grid :
         (\A i \in 1 .. Len(cwPlaced) : q # <<cwPlaced[i].row, cwPlaced[i].col>>)
           => ~result.grid[q].hasNumber

\* C19: a step that places a word appends the entry of the first candidate
\* (i, placed word, j) that canPlaceWord accepts on the grid before the step,
\* in the order i ascending, then the placed words in placement order, then
\* j ascending; it writes that one placement only and moves to the next
\* word, so no word has two entries.
CWFirstFitOrder ==
  /\ [](cwPlaced = <<>> \/ Len(cwPlaced) < cwWordIdx)
  /\ [][ (cwPc = "place" /\ cwPlaced' # cwPlaced) =>
         LET word == cwWords[cwWordIdx]
             fits == Fits(cwGrid, cwPlaced, word)
         IN  \E c \in fits :
               LET e == [text |-> word,
                         row |-> newRow(cwPlaced[c[2]], c[1], c[3]),
                         col |-> newCol(cwPlaced[c[2]], c[1], c[3]),
                         vertical |-> ~cwPlaced[c[2]].vertical]
               IN  /\ \A d \in fits :
                        \/ c[1] < d[1]
                        \/ c[1] = d[1] /\ c[2] < d[2]
                        \/ c[1] = d[1] /\ c[2] = d[2] /\ c[3] <= d[3]
                   /\ cwPlaced' = Append(cwPlaced, e)
                   /\ cwGrid' = placeWord(cwGrid, word, e.row, e.col, e.vertical)
                   /\ cwWordIdx' = cwWordIdx + 1 ]_vars

\* ["BOAT", "NOAH", "OAT"]: canPlaceWord accepts two placements of OAT, the
\* first in scan order is the one on row 7
C19_Witness ==
  /\ cwWords = << <<"B", "O", "A", "T">>, <<"N", "O", "A", "H">>, <<"O", "A", "T">> >>
  /\ Len(cwPlaced) = 3
  /\ cwPlaced[3] = [text |-> <<"O", "A", "T">>, row |-> 7, col |-> 6, vertical |-> FALSE]

\* the neighbours of cell q across the direction of a word
PerpendicularNeighbours(q, vertical) ==
  IF vertical THEN {<<q[1], q[2] - 1>>, <<q[1], q[2] + 1>>}
              ELSE {<<q[1] - 1, q[2]>>, <<q[1] + 1, q[2]>>}

\* C20: when a step places a word, every cell of its span that was free
\* before the step has no letter in either of its in-grid neighbours across
\* the word's direction (on the grid before the step).
CWPerpendicularClearance ==
  [][ (cwPc = "place" /\ cwPlaced' # cwPlaced) =>
       LET e == cwPlaced'[Len(cwPlaced')]
       IN  \A q \in EntrySpan(e) :
             ReadCell(cwGrid, q) = "_" =>
               \A nb \in PerpendicularNeighbours(q, e.vertical) :
                 ~Occupied(cwGrid, nb) ]_vars

\* a word is placed with two new cells that have both neighbours in the grid
C20_Witness ==
  /\ Len(cwPlaced) = 3
  /\ Cardinality({q \in EntrySpan(LastPlaced) \ SharedWithEarlier(3) :
         \A nb \in PerpendicularNeighbours(q, LastPlaced.vertical) :
           InCWGrid(nb) /\ ~Occupied(cwGrid, nb)}) >= 2

(***************************************************************************)
(* PamphletGenerator and PamphletPreview: the PDF export                   *)
(*                                                                         *)
(* A state setter only records the new value; the values a render commits  *)
(* (the closures of exportToPDF, the button, the effect's dependencies)    *)
(* are those of pvRendered until the next render.  A render and the        *)
(* effects it triggers are one step.  A click is a discrete event: its     *)
(* updates are rendered before the next event.                             *)
(***************************************************************************)
\* handleGenerate is run at most MaxGenerations times
MaxGenerations == 3

\* part_000 lines 140-149: the effect of a render with the values r, after
\* the cleanup of the effect before it
EffectTimer(r) ==
  IF r.content # 0 /\ ~r.pdfGenerated /\ ~r.isExporting THEN r.content ELSE 0

\* the values the next render commits
StateToRender ==
  [content |-> pamphletContent, pdfGenerated |-> pvState.pdfGenerated,
   isExporting |-> pvState.isExporting]

\* lines 21-26 past the guard: a new execution that captures the pages
NewRun(content) == [content |-> content, pc |-> "capture", outcome |-> "none"]

PDFInit ==
  /\ pamphletContent = 0
  /\ pvState = [pdfGenerated |-> FALSE, isExporting |-> FALSE]
  /\ pvRendered = [content |-> 0, pdfGenerated |-> FALSE, isExporting |-> FALSE]
  /\ timer = 0 /\ runs = <<>> /\ saved = <<>>
  /\ pdfPc = "run"
  /\ MazeIdle /\ WSIdle /\ CWIdle

\* PamphletGenerator.jsx line 55: handleGenerate delivers new content.  The
\* Generate button is disabled while a call is awaited (lines 39, 63, 183),
\* so the content delivered before has been rendered
HandleGenerate ==
  /\ pdfPc = "run"
  /\ pamphletContent < MaxGenerations
  /\ pvRendered.content = pamphletContent
  /\ pamphletContent' = pamphletContent + 1
  /\ UNCHANGED <<pvState, pvRendered, timer, runs, saved, pdfPc,
                 mazeVars, wsVars, cwVars>>

\* a render of PamphletGenerator and PamphletPreview (lines 201-214 and
\* 14-19) with a changed dependency of the effect of lines 140-149: the
\* cleanup clears the timer and the effect may set a new one
PVRender ==
  /\ pdfPc = "run"
  /\ pvRendered # StateToRender
  /\ pvRendered' = StateToRender
  /\ timer' = EffectTimer(StateToRender)
  /\ UNCHANGED <<pamphletContent, pvState, runs, saved, pdfPc,
                 mazeVars, wsVars, cwVars>>

\* lines 143-145: the timer calls the exportToPDF of the render that set
\* it, in which pdfGenerated is false: lines 22-26
TimerFires ==
  /\ pdfPc = "run"
  /\ timer # 0
  /\ runs' = Append(runs, NewRun(timer))
  /\ pvState' = [pvState EXCEPT !.isExporting = TRUE]
  /\ timer' = 0
  /\ UNCHANGED <<pamphletContent, pvRendered, saved, pdfPc,
                 mazeVars, wsVars, cwVars>>

\* lines 154-161: a click on the button of the committed render calls the
\* exportToPDF of that render (lines 22-26); the update is rendered at the
\* end of the event
ClickDownload ==
  /\ pdfPc = "run"
  /\ pvRendered.content # 0
  /\ ~pvRendered.pdfGenerated
  /\ ~pvRendered.isExporting
  /\ runs' = Append(runs, NewRun(pvRendered.content))
  /\ pvState' = [pvState EXCEPT !.isExporting = TRUE]
  /\ pvRendered' = [StateToRender EXCEPT !.isExporting = TRUE]
  /\ timer' = EffectTimer([StateToRender EXCEPT !.isExporting = TRUE])
  /\ UNCHANGED <<pamphletContent, saved, pdfPc, mazeVars, wsVars, cwVars>>

\* lines 27-78: the pages are captured and the PDF is saved
CaptureSucceeds ==
  /\ pdfPc = "run"
  /\ \E k \in 1 .. Len(runs) :
       /\ runs[k].pc = "capture"
       /\ runs' = [runs EXCEPT ![k].pc = "upload"]
       /\ saved' = Append(saved, runs[k].content)
  /\ UNCHANGED <<pamphletContent, pvState, pvRendered, timer, pdfPc,
                 mazeVars, wsVars, cwVars>>

\* lines 27-78 throw: lines 131-136
CaptureFails ==
  /\ pdfPc = "run"
  /\ \E k \in 1 .. Len(runs) :
       /\ runs[k].pc = "capture"
       /\ runs' = [runs EXCEPT ![k].pc = "ended", ![k].outcome = "renderFailed"]
  /\ pvState' = [pdfGenerated |-> TRUE, isExporting |-> FALSE]
  /\ UNCHANGED <<pamphletContent, pvRendered, timer, saved, pdfPc,
                 mazeVars, wsVars, cwVars>>

\* lines 81-136: the upload returns an id, returns none, or fails
UploadEnds ==
  /\ pdfPc = "run"
  /\ \E k \in 1 .. Len(runs) :
       /\ runs[k].pc = "upload"
       /\ \E outcome \in {"uploaded", "noId", "uploadFailed"} :
            runs' = [runs EXCEPT ![k].pc = "ended", ![k].outcome = outcome]
  /\ pvState' = [pdfGenerated |-> TRUE, isExporting |-> FALSE]
  /\ UNCHANGED <<pamphletContent, pvRendered, timer, saved, pdfPc,
                 mazeVars, wsVars, cwVars>>

\* what happens without the user
PDFProgress == PVRender \/ TimerFires \/ CaptureSucceeds \/ CaptureFails \/ UploadEnds

PDFNext == HandleGenerate \/ ClickDownload \/ PDFProgress

SpecPDF == PDFInit /\ [][PDFNext]_vars

\* renders are scheduled, the 500 ms timer fires unless it is cleared, and
\* html2canvas and the upload settle; nothing is assumed of the user
SpecPDFFair ==
  /\ SpecPDF
  /\ WF_vars(PVRender) /\ WF_vars(TimerFires)
  /\ WF_vars(CaptureSucceeds \/ CaptureFails) /\ WF_vars(UploadEnds)

(***************************************************************************)
(* Properties of the PDF export                                            *)
(***************************************************************************)
\* the contents an exportToPDF execution was started for
ExportedContents == {runs[k].content : k \in 1 .. Len(runs)}

\* C28: for every generation n, when the content of generation n is
\* delivered and the user does nothing after it (it stays the content),
\* an exportToPDF execution is eventually started for it.
PDFAutoExport ==
  \A n \in 1 .. MaxGenerations :
    <>[](pamphletContent = n) => <>(n \in ExportedContents)

\* the same for the first generation only
PDFAutoExportFirst ==
  <>[](pamphletContent = 1) => <>(1 \in ExportedContents)

\* every execution that ends leaves isExporting = false and
\* pdfGenerated = true
PDFRunEnds ==
  [][ (\E k \in 1 .. Len(runs) : runs[k].pc # "ended" /\ runs'[k].pc = "ended")
        => pvState' = [pdfGenerated |-> TRUE, isExporting |-> FALSE] ]_vars

\* C29: at most one exportToPDF execution gets past the guard and at most
\* one PDF is saved, whatever the order of timer, clicks and renders; when
\* the executions have ended isExporting is false and pdfGenerated true.
PDFExportAtMostOnce ==
  /\ Len(runs) <= 1
  /\ Len(saved) <= 1
  /\ (runs # <<>> /\ \A k \in 1 .. Len(runs) : runs[k].pc = "ended") =>
       pvState = [pdfGenerated |-> TRUE, isExporting |-> FALSE]

====
